---- MODULE Spec2Model ----
(***************************************************************************)
(* Factorial API (app/main.py, app/factorial_utils.py).                    *)
(*                                                                         *)
(* One HTTP endpoint, POST /factorial: the body is validated against the   *)
(* FactorialIn schema, the handler compute_factorial re-checks the bounds  *)
(* and calls factorial(n), and the result is returned as a decimal string. *)
(*                                                                         *)
(* Python's int is arbitrary precision.  A value produced by factorial is  *)
(* modelled as the little-endian sequence of its decimal digits (1 is      *)
(* <<1>>, 120 is <<0, 2, 1>>, 0 is <<>>), so that products never leave the *)
(* range of the checker's integers and str() is a real conversion.         *)
(* Request inputs (payload.number) are small and stay plain integers.      *)
(***************************************************************************)
EXTENDS Integers, Sequences, FiniteSets, TLC

VARIABLES
    pc,        \* pc[r]: where request r is in the pipeline
    body,      \* body[r]: the JSON body request r carries
    payload,   \* payload[r]: the validated FactorialIn.number of request r
    errors,    \* errors[r]: exc.errors() of the RequestValidationError raised for r
    resp,      \* resp[r]: the response built for request r
    calls,     \* calls[r]: the arguments factorial() was called with while handling r
    log,       \* log[r]: the lines the handling of r wrote to the logger
    unit       \* calls made on the module's functions directly, with their outcomes

vars == <<pc, body, payload, errors, resp, calls, log, unit>>

(***************************************************************************)
(* Bounds of the model.                                                    *)
(***************************************************************************)
MaxSmall == 20      \* largest in-range number a request or a direct call carries
MaxNeg == 2         \* request numbers go down to -MaxNeg
MaxOver == 2        \* request numbers go up to MAX_N + MaxOver, skipping MaxSmall+1..MAX_N
MaxCalls == 2       \* direct calls of factorial or compute_factorial recorded in unit
MaxErrs == 3        \* longest error list handed to validation_exception_handler directly

Reqs == {"r1", "r2"}    \* requests in flight at the same time

(***************************************************************************)
(* app/main.py: module constants.                                          *)
(***************************************************************************)
MAX_N == 2000

HTTP_200_OK == 200
HTTP_422_UNPROCESSABLE_ENTITY == 422

(***************************************************************************)
(* Python int arithmetic and str().                                        *)
(***************************************************************************)
DigitChar == <<"0", "1", "2", "3", "4", "5", "6", "7", "8", "9">>

\* A non-negative machine integer as a digit sequence.
RECURSIVE ToBig(_)
ToBig(k) == IF k = 0 THEN <<>> ELSE <<k % 10>> \o ToBig(k \div 10)

\* a * k for a digit sequence a and a small non-negative factor k.
RECURSIVE MulCarry(_, _, _)
MulCarry(a, k, carry) ==
    IF a = <<>>
    THEN ToBig(carry)
    ELSE LET t == Head(a) * k + carry
         IN  <<t % 10>> \o MulCarry(Tail(a), k, t \div 10)

IntMul(a, k) == MulCarry(a, k, 0)

RECURSIVE DigitStr(_)
DigitStr(a) == IF a = <<>> THEN "" ELSE DigitStr(Tail(a)) \o DigitChar[Head(a) + 1]

\* str(value) of a non-negative int.
str(a) == IF a = <<>> THEN "0" ELSE DigitStr(a)

\* Mutant of range: the upper end is included.
range_inclusive(lo, hi) == [i \in 1..(IF hi >= lo THEN hi - lo + 1 ELSE 0) |-> lo + i - 1]

\* range(lo, hi): lo, lo+1, ..., hi-1.
range(lo, hi) == [i \in 1..(IF hi > lo THEN hi - lo ELSE 0) |-> lo + i - 1]

\* math.prod(xs): the product of xs, starting from 1.
RECURSIVE ProdFrom(_, _)
ProdFrom(acc, xs) == IF xs = <<>> THEN acc ELSE ProdFrom(IntMul(acc, Head(xs)), Tail(xs))

prod(xs) == ProdFrom(<<1>>, xs)

\* Mutant of factorial: the base case also takes n = 2.
factorial_base_slip(n) ==
    IF n < 0
    THEN [raised |-> TRUE, exc |-> "ValueError"]
    ELSE IF n <= 2
         THEN [raised |-> FALSE, value |-> <<1>>]
         ELSE [raised |-> FALSE, value |-> prod(range(2, n + 1))]

\* Mutant of factorial: no check of the sign.
factorial_unguarded(n) ==
    IF n < 2
    THEN [raised |-> FALSE, value |-> <<1>>]
    ELSE [raised |-> FALSE, value |-> prod(range(2, n + 1))]

(***************************************************************************)
(* app/factorial_utils.py: factorial(n).                                   *)
(* The outcome is either a returned value or a raised ValueError.          *)
(***************************************************************************)
factorial(n) ==
    IF n < 0
    THEN [raised |-> TRUE, exc |-> "ValueError"]
    ELSE IF n < 2
         THEN [raised |-> FALSE, value |-> <<1>>]
         ELSE [raised |-> FALSE, value |-> prod(range(2, n + 1))]

(***************************************************************************)
(* JSON bodies.  A body is a JSON object: a function from field names to   *)
(* JSON values.  A JSON value is tagged with its JSON type: an integer     *)
(* literal [t |-> "int", i |-> 5], a number with a decimal point given in  *)
(* tenths ([t |-> "float", tenths |-> 45] is 4.5), a string, a boolean or  *)
(* null.                                                                   *)
(***************************************************************************)
EmptyObject == [k \in {} |-> k]

JInt(i) == [t |-> "int", i |-> i]
JFloat(tenths) == [t |-> "float", tenths |-> tenths]
JStr(s) == [t |-> "str", s |-> s]
JBool(b) == [t |-> "bool", b |-> b]
JNull == [t |-> "null"]

RequestInts == (-MaxNeg .. MaxSmall) \cup ((MAX_N + 1) .. (MAX_N + MaxOver))

JsonValues ==
    {JInt(i) : i \in RequestInts}
    \cup {JFloat(40), JFloat(45), JFloat(-10)}
    \cup {JStr("5"), JStr("-2"), JStr("abc"), JStr("")}
    \cup {JBool(TRUE), JBool(FALSE)}
    \cup {JNull}

Bodies == {EmptyObject} \cup {[number |-> v] : v \in JsonValues}

(***************************************************************************)
(* app/main.py: FactorialIn.  number is Annotated[int, Field(ge=0,         *)
(* le=MAX_N)] with no strict flag, so the field is validated in the        *)
(* schema library's default (lax) mode: a boolean, a number with a zero    *)
(* fractional part and a string holding an integer literal are converted   *)
(* to int before the bounds are applied.  Validation stops at the first    *)
(* failure of the field, so the error list has one entry.                  *)
(***************************************************************************)
IsDigit(c) == \E d \in 1..10 : DigitChar[d] = c

DigitVal(c) == (CHOOSE d \in 1..10 : DigitChar[d] = c) - 1

RECURSIVE DigitsVal(_, _)
DigitsVal(s, acc) ==
    IF Len(s) = 0
    THEN acc
    ELSE DigitsVal(SubSeq(s, 2, Len(s)), acc * 10 + DigitVal(SubSeq(s, 1, 1)))

\* A string as an integer literal: an optional sign and one or more digits.
int_from_str(s) ==
    LET signed == Len(s) > 0 /\ SubSeq(s, 1, 1) \in {"-", "+"}
        digits == IF signed THEN SubSeq(s, 2, Len(s)) ELSE s
        wellformed == Len(digits) > 0
                      /\ \A i \in 1..Len(digits) : IsDigit(SubSeq(digits, i, i))
    IN  IF ~wellformed
        THEN [ok |-> FALSE]
        ELSE [ok |-> TRUE,
              value |-> IF signed /\ SubSeq(s, 1, 1) = "-"
                        THEN 0 - DigitsVal(digits, 0)
                        ELSE DigitsVal(digits, 0)]

\* A location component of a validation error: a field name or an index.
LocName(s) == [s |-> s]
LocIndex(i) == [i |-> i]

FieldError(msg) == [loc |-> <<LocName("body"), LocName("number")>>, msg |-> msg]

\* The int conversion of the field's type.
int_validate(v) ==
    CASE v.t = "int"   -> [ok |-> TRUE, value |-> v.i]
      [] v.t = "bool"  -> [ok |-> TRUE, value |-> IF v.b THEN 1 ELSE 0]
      [] v.t = "float" ->
            IF v.tenths % 10 = 0
            THEN [ok |-> TRUE, value |-> v.tenths \div 10]
            ELSE [ok |-> FALSE,
                  msg |-> "Input should be a valid integer, got a number with a fractional part"]
      [] v.t = "str"   ->
            LET p == int_from_str(v.s)
            IN  IF p.ok
                THEN [ok |-> TRUE, value |-> p.value]
                ELSE [ok |-> FALSE,
                      msg |-> "Input should be a valid integer, unable to parse string as an integer"]
      [] v.t = "null"  -> [ok |-> FALSE, msg |-> "Input should be a valid integer"]

\* Mutant of number_field: Field(ge=0) only.
number_field_no_le(v) ==
    LET c == int_validate(v)
    IN  IF ~c.ok
        THEN [ok |-> FALSE, errors |-> <<FieldError(c.msg)>>]
        ELSE IF ~(c.value >= 0)
        THEN [ok |-> FALSE,
              errors |-> <<FieldError("Input should be greater than or equal to 0")>>]
        ELSE [ok |-> TRUE, number |-> c.value]

\* Mutant of number_field: Field(le=MAX_N) only.
number_field_no_ge(v) ==
    LET c == int_validate(v)
    IN  IF ~c.ok
        THEN [ok |-> FALSE, errors |-> <<FieldError(c.msg)>>]
        ELSE IF ~(c.value <= MAX_N)
        THEN [ok |-> FALSE,
              errors |-> <<FieldError("Input should be less than or equal to " \o str(ToBig(MAX_N)))>>]
        ELSE [ok |-> TRUE, number |-> c.value]

\* Field(ge=0, le=MAX_N) applied to the converted value.
number_field(v) ==
    LET c == int_validate(v)
    IN  IF ~c.ok
        THEN [ok |-> FALSE, errors |-> <<FieldError(c.msg)>>]
        ELSE IF ~(c.value >= 0)
        THEN [ok |-> FALSE,
              errors |-> <<FieldError("Input should be greater than or equal to 0")>>]
        ELSE IF ~(c.value <= MAX_N)
        THEN [ok |-> FALSE,
              errors |-> <<FieldError("Input should be less than or equal to " \o str(ToBig(MAX_N)))>>]
        ELSE [ok |-> TRUE, number |-> c.value]

\* FactorialIn validated from a JSON body: number is required.
FactorialIn(b) ==
    IF "number" \notin DOMAIN b
    THEN [ok |-> FALSE, errors |-> <<FieldError("Field required")>>]
    ELSE number_field(b.number)

(***************************************************************************)
(* app/main.py: validation_exception_handler.                              *)
(***************************************************************************)
\* str(x) of a location component.
loc_str(x) == IF "s" \in DOMAIN x THEN x.s ELSE str(ToBig(x.i))

\* sep.join(xs)
RECURSIVE join(_, _)
join(sep, xs) ==
    IF xs = <<>> THEN ""
    ELSE IF Len(xs) = 1 THEN xs[1]
    ELSE xs[1] \o sep \o join(sep, Tail(xs))

\* One pass of the loop body: f"{loc}: {msg}" for err.
message_of(err) ==
    LET locparts == IF "loc" \in DOMAIN err THEN err.loc ELSE <<>>
        loc == join(" -> ", [i \in 1..Len(locparts) |-> loc_str(locparts[i])])
        msg == IF "msg" \in DOMAIN err THEN err.msg ELSE "Invalid input"
    IN  loc \o ": " \o msg

\* Mutant of validation_exception_handler: the messages are joined with ", ".
validation_exception_handler_comma(errs) ==
    LET messages == [i \in 1..Len(errs) |-> message_of(errs[i])]
        detail == IF messages # <<>> THEN join(", ", messages) ELSE "Invalid request body."
    IN  [status_code |-> HTTP_422_UNPROCESSABLE_ENTITY,
         content |-> [error |-> "ValidationError", detail |-> detail]]

\* Mutant of validation_exception_handler: err["message"] is read, a key no
\* error has, so the handler raises KeyError and the server answers 500.
validation_exception_handler_keyerror(errs) ==
    IF errs # <<>>
    THEN [status_code |-> 500, content |-> [k \in {} |-> k], unhandled |-> "KeyError"]
    ELSE [status_code |-> HTTP_422_UNPROCESSABLE_ENTITY,
          content |-> [error |-> "ValidationError", detail |-> "Invalid request body."]]

validation_exception_handler(errs) ==
    LET messages == [i \in 1..Len(errs) |-> message_of(errs[i])]
        detail == IF messages # <<>> THEN join("; ", messages) ELSE "Invalid request body."
    IN  [status_code |-> HTTP_422_UNPROCESSABLE_ENTITY,
         content |-> [error |-> "ValidationError", detail |-> detail]]

(***************************************************************************)
(* app/main.py: compute_factorial.  The outcome is a returned FactorialOut *)
(* or a raised exception, with the factorial() calls made and the lines    *)
(* logged on the way.                                                      *)
(***************************************************************************)
compute_factorial(n) ==
    IF n < 0 \/ n > MAX_N
    THEN [raised |-> TRUE,
          exc |-> [type |-> "HTTPException",
                   status_code |-> HTTP_422_UNPROCESSABLE_ENTITY,
                   detail |-> "Number must be between 0 and " \o str(ToBig(MAX_N)) \o "."],
          calls |-> <<>>,
          log |-> <<>>]
    ELSE LET value == factorial(n)
             line == "Computing factorial for n=" \o str(ToBig(n))
         IN  IF value.raised
             THEN [raised |-> TRUE,
                   exc |-> [type |-> value.exc],
                   calls |-> <<n>>,
                   log |-> <<line>>]
             ELSE [raised |-> FALSE,
                   value |-> [input |-> n, result |-> str(value.value)],
                   calls |-> <<n>>,
                   log |-> <<line>>]

\* What the route turns the handler's outcome into: the returned model with
\* the route's status_code; an HTTPException, for which the application
\* registers no handler, as its status and {"detail": ...}; any other
\* exception leaves the application unhandled and the server answers 500.
route_response(out) ==
    IF ~out.raised
    THEN [status_code |-> HTTP_200_OK, content |-> out.value]
    ELSE IF out.exc.type = "HTTPException"
    THEN [status_code |-> out.exc.status_code, content |-> [detail |-> out.exc.detail]]
    ELSE [status_code |-> 500, content |-> EmptyObject, unhandled |-> out.exc.type]

(***************************************************************************)
(* The request pipeline of POST /factorial.  Each request r goes           *)
(*   idle -> received -> validated -> responded -> idle   or               *)
(*   idle -> received -> invalid   -> responded -> idle,                   *)
(* and the steps of different requests interleave freely.                  *)
(***************************************************************************)
NoResponse == [status_code |-> 0, content |-> EmptyObject]

Init ==
    /\ pc = [r \in Reqs |-> "idle"]
    /\ body = [r \in Reqs |-> EmptyObject]
    /\ payload = [r \in Reqs |-> 0]
    /\ errors = [r \in Reqs |-> <<>>]
    /\ resp = [r \in Reqs |-> NoResponse]
    /\ calls = [r \in Reqs |-> <<>>]
    /\ log = [r \in Reqs |-> <<>>]
    /\ unit = <<>>

\* A client posts body b; the request is routed to /factorial.
Receive(r, b) ==
    /\ pc[r] = "idle"
    /\ pc' = [pc EXCEPT ![r] = "received"]
    /\ body' = [body EXCEPT ![r] = b]
    /\ UNCHANGED <<payload, errors, resp, calls, log, unit>>

\* The body is validated against FactorialIn: the handler's payload is built,
\* or RequestValidationError is raised with the errors found.
Validate(r) ==
    /\ pc[r] = "received"
    /\ LET v == FactorialIn(body[r])
       IN  IF v.ok
           THEN /\ pc' = [pc EXCEPT ![r] = "validated"]
                /\ payload' = [payload EXCEPT ![r] = v.number]
                /\ UNCHANGED errors
           ELSE /\ pc' = [pc EXCEPT ![r] = "invalid"]
                /\ errors' = [errors EXCEPT ![r] = v.errors]
                /\ UNCHANGED payload
    /\ UNCHANGED <<body, resp, calls, log, unit>>

\* The RequestValidationError reaches validation_exception_handler.
HandleInvalid(r) ==
    /\ pc[r] = "invalid"
    /\ resp' = [resp EXCEPT ![r] = validation_exception_handler(errors[r])]
    /\ pc' = [pc EXCEPT ![r] = "responded"]
    /\ UNCHANGED <<body, payload, errors, calls, log, unit>>

\* The numbers a payload can carry: whatever the int conversion yields for a
\* JSON value, before the bounds are applied.
PayloadNumbers == {int_validate(v).value : v \in {w \in JsonValues : int_validate(w).ok}}

\* compute_factorial on each of them, evaluated once.
HandlerOutcome == [n \in PayloadNumbers |-> compute_factorial(n)]

\* Mutant of Handle: n is read from a place all requests share, so the handler
\* may see the number of another validated request.
Handle_shared(r) ==
    /\ pc[r] = "validated"
    /\ \E q \in Reqs :
        /\ pc[q] = "validated"
        /\ LET out == HandlerOutcome[payload[q]]
           IN  /\ resp' = [resp EXCEPT ![r] = route_response(out)]
               /\ calls' = [calls EXCEPT ![r] = out.calls]
               /\ log' = [log EXCEPT ![r] = out.log]
    /\ pc' = [pc EXCEPT ![r] = "responded"]
    /\ UNCHANGED <<body, payload, errors, unit>>

\* compute_factorial runs on the validated payload, without suspending.
Handle(r) ==
    /\ pc[r] = "validated"
    /\ LET out == HandlerOutcome[payload[r]]
       IN  /\ resp' = [resp EXCEPT ![r] = route_response(out)]
           /\ calls' = [calls EXCEPT ![r] = out.calls]
           /\ log' = [log EXCEPT ![r] = out.log]
    /\ pc' = [pc EXCEPT ![r] = "responded"]
    /\ UNCHANGED <<body, payload, errors, unit>>

\* The response is sent and the request is over: nothing of it is kept.
Deliver(r) ==
    /\ pc[r] = "responded"
    /\ pc' = [pc EXCEPT ![r] = "idle"]
    /\ body' = [body EXCEPT ![r] = EmptyObject]
    /\ payload' = [payload EXCEPT ![r] = 0]
    /\ errors' = [errors EXCEPT ![r] = <<>>]
    /\ resp' = [resp EXCEPT ![r] = NoResponse]
    /\ calls' = [calls EXCEPT ![r] = <<>>]
    /\ log' = [log EXCEPT ![r] = <<>>]
    /\ UNCHANGED unit

Next ==
    \/ \E r \in Reqs, b \in Bodies : Receive(r, b)
    \/ \E r \in Reqs : Validate(r)
    \/ \E r \in Reqs : HandleInvalid(r)
    \/ \E r \in Reqs : Handle(r)
    \/ \E r \in Reqs : Deliver(r)

Spec == Init /\ [][Next]_vars

\* The server runs every step of a request it has accepted: a request that
\* can be validated or handled is not left waiting forever.
ServerStep(r) == Validate(r) \/ HandleInvalid(r) \/ Handle(r)

FairSpec == Spec /\ \A r \in Reqs : WF_vars(ServerStep(r))

(***************************************************************************)
(* The functions called directly, as the unit tests call factorial().      *)
(* unit records the calls made, each with its argument and its outcome.    *)
(***************************************************************************)
pipeline == <<pc, body, payload, errors, resp, calls, log>>

\* factorial(n) for any small n, negative ones included.
FactorialArgs == -MaxNeg .. MaxSmall

CallFactorial(n) ==
    /\ Len(unit) < MaxCalls
    /\ unit' = Append(unit, [fn |-> "factorial", arg |-> n, out |-> factorial(n)])
    /\ UNCHANGED pipeline

NextFactorial == \E n \in FactorialArgs : CallFactorial(n)

SpecFactorial == Init /\ [][NextFactorial]_vars

\* validation_exception_handler(exc) for any short error list.  An error is
\* a dict that may lack "loc" or "msg".
ErrorDicts ==
    { FieldError("Input should be greater than or equal to 0"),
      FieldError("Field required"),
      [loc |-> <<LocName("body"), LocIndex(12)>>, msg |-> "JSON decode error"],
      [loc |-> <<>>, msg |-> "Field required"],
      [msg |-> "Input should be a valid integer"],
      [loc |-> <<LocName("body")>>] }

ErrorLists == UNION {[1..k -> ErrorDicts] : k \in 0..MaxErrs}

CallHandler(errs) ==
    /\ unit = <<>>
    /\ unit' = Append(unit, [fn |-> "validation_exception_handler", arg |-> errs,
                             out |-> validation_exception_handler(errs)])
    /\ UNCHANGED pipeline

NextHandler == \E errs \in ErrorLists : CallHandler(errs)

SpecHandler == Init /\ [][NextHandler]_vars

\* compute_factorial(payload) on a payload whose number was set without
\* validation (the model class validates on construction only), the outcome
\* turned into a response as the route does.
CallCompute(n) ==
    /\ Len(unit) < MaxCalls
    /\ LET out == compute_factorial(n)
       IN  unit' = Append(unit, [fn |-> "compute_factorial", arg |-> n, out |-> out,
                                 response |-> route_response(out)])
    /\ UNCHANGED pipeline

NextCompute == \E n \in RequestInts : CallCompute(n)

SpecCompute == Init /\ [][NextCompute]_vars

(***************************************************************************)
(* Reference definitions used by the properties below.                     *)
(***************************************************************************)
\* The decimal numerals of 0!, 1!, ..., 25!.
FactorialNumerals ==
    << "1",
       "1",
       "2",
       "6",
       "24",
       "120",
       "720",
       "5040",
       "40320",
       "362880",
       "3628800",
       "39916800",
       "479001600",
       "6227020800",
       "87178291200",
       "1307674368000",
       "20922789888000",
       "355687428096000",
       "6402373705728000",
       "121645100408832000",
       "2432902008176640000",
       "51090942171709440000",
       "1124000727777607680000",
       "25852016738884976640000",
       "620448401733239439360000",
       "15511210043330985984000000" >>

\* n! by the recurrence, beyond the numerals above.
RECURSIVE RefFactorial(_)
RefFactorial(n) == IF n = 0 THEN <<1>> ELSE IntMul(RefFactorial(n - 1), n)

DecimalFactorial(n) ==
    IF n + 1 <= Len(FactorialNumerals) THEN FactorialNumerals[n + 1] ELSE str(RefFactorial(n))

\* sub occurs in s.
Contains(s, sub) ==
    \E i \in 1..(Len(s) - Len(sub) + 1) : SubSeq(s, i, i + Len(sub) - 1) = sub

\* A positive int in canonical form: digits only, at least one, no leading zero.
IsPositiveInt(a) ==
    /\ Len(a) >= 1
    /\ \A i \in 1..Len(a) : a[i] \in 0..9
    /\ a[Len(a)] # 0

IntBody(n) == [number |-> JInt(n)]

Responded(r) == pc[r] = "responded"

C2_OutOfRangeRejected ==
    \A r \in Reqs : \A n \in RequestInts :
        (body[r] = IntBody(n) /\ pc[r] # "idle" /\ (n < 0 \/ n > MAX_N))
            => /\ pc[r] # "validated"
               /\ calls[r] = <<>>
               /\ Responded(r) => resp[r].status_code = 422

C2_Witness ==
    /\ \E r \in Reqs :
        Responded(r) /\ body[r] = IntBody(MAX_N + 1) /\ resp[r].status_code = 422
    /\ \E r \in Reqs :
        Responded(r) /\ body[r] = IntBody(-2) /\ resp[r].status_code = 422

\* The values the claim C3 calls non-integers: anything but a JSON integer.
NotAnInteger(b) == "number" \notin DOMAIN b \/ b.number.t # "int"

\* C3: a request with no number, or with a number that is not an integer (a
\* string, a float, a boolean), is answered 422 and never 200, and factorial()
\* is not called for it.
C3_NonIntegerRejected ==
    \A r \in Reqs :
        (Responded(r) /\ NotAnInteger(body[r]))
            => /\ calls[r] = <<>>
               /\ Responded(r) => resp[r].status_code = 422

\* C10: the handler only ever gets a number within 0..MAX_N, so its own bounds
\* check never raises and factorial()'s ValueError never surfaces.
C10_HandlerInBounds ==
    \A r \in Reqs :
        /\ pc[r] = "validated" => (0 <= payload[r] /\ payload[r] <= MAX_N)
        /\ \A i \in 1..Len(calls[r]) : 0 <= calls[r][i] /\ calls[r][i] <= MAX_N
        /\ (Responded(r) /\ FactorialIn(body[r]).ok)
                => /\ resp[r].status_code = 200
                   /\ calls[r] = <<payload[r]>>
        /\ Responded(r) => "unhandled" \notin DOMAIN resp[r]

\* A string converted to 5 has reached the handler and factorial(5) was called.
C10_Witness ==
    \E r \in Reqs :
        /\ Responded(r)
        /\ body[r] = [number |-> JStr("5")]
        /\ calls[r] = <<5>>
        /\ resp[r].status_code = 200

\* The response a request with body b gets when it is handled alone.
IsolatedResponse(b) ==
    LET v == FactorialIn(b)
    IN  IF v.ok
        THEN route_response(compute_factorial(v.number))
        ELSE validation_exception_handler(v.errors)

\* A step changes the state of one request only.
OneRequestSteps ==
    \E r \in Reqs : \A q \in Reqs \ {r} :
        /\ pc'[q] = pc[q]
        /\ body'[q] = body[q]
        /\ payload'[q] = payload[q]
        /\ errors'[q] = errors[q]
        /\ resp'[q] = resp[q]
        /\ calls'[q] = calls[q]
        /\ log'[q] = log[q]

\* C7: whatever other requests are in flight or were handled before, failed or
\* not, a request gets the response its own body determines; two requests
\* with the same body get the same response.
C7_ResponseDependsOnOwnBody ==
    /\ [](\A r \in Reqs : Responded(r) => resp[r] = IsolatedResponse(body[r]))
    /\ [](\A r, q \in Reqs :
            (Responded(r) /\ Responded(q) /\ body[r] = body[q]) => resp[r] = resp[q])
    /\ [][OneRequestSteps]_vars

\* A request is answered 200 while the other one in flight has failed.
C7_Witness ==
    /\ Responded("r1") /\ resp["r1"].status_code = 422
    /\ Responded("r2") /\ resp["r2"].status_code = 200
    /\ body["r2"] = IntBody(5)
    /\ resp["r2"].content.result = "120"

\* A response is complete: a 200 with input and result and nothing else, or an
\* error status with an error body and no result.
CompleteResponse(x) ==
    \/ /\ x.status_code = 200
       /\ DOMAIN x.content = {"input", "result"}
    \/ /\ x.status_code >= 400
       /\ "detail" \in DOMAIN x.content
       /\ "result" \notin DOMAIN x.content
       /\ "input" \notin DOMAIN x.content

\* Once built, the response of a request stays as it is until it is sent.
OneResponse ==
    \A r \in Reqs :
        /\ Responded(r) => \/ Responded(r)' /\ resp'[r] = resp[r]
                           \/ pc'[r] = "idle"
        /\ ~Responded(r) => resp[r] = NoResponse

C5_FactorialRecurrence ==
    \A i \in 1..Len(unit) :
        unit[i].arg >= 0 =>
            /\ ~unit[i].out.raised
            /\ IsPositiveInt(unit[i].out.value)
            /\ unit[i].arg \in {0, 1} => unit[i].out.value = <<1>>
            /\ \A j \in 1..Len(unit) :
                    unit[j].arg = unit[i].arg + 1
                        => unit[j].out.value = IntMul(unit[i].out.value, unit[j].arg)

\* factorial(12) and factorial(13) were both called; 13! = 13 * 12! is past 32 bits.
C5_Witness ==
    /\ Len(unit) = 2
    /\ unit[1].arg = 12 /\ str(unit[1].out.value) = "479001600"
    /\ unit[2].arg = 13 /\ str(unit[2].out.value) = "6227020800"

\* C6: factorial(n) for n < 0 raises ValueError and returns no value.
C6_NegativeRaises ==
    \A i \in 1..Len(unit) :
        unit[i].arg < 0 =>
            /\ unit[i].out.raised
            /\ unit[i].out.exc = "ValueError"
            /\ "value" \notin DOMAIN unit[i].out

C6_Witness ==
    \E i \in 1..Len(unit) : unit[i].arg = -1 /\ unit[i].out.raised

(***************************************************************************)
(* Properties of validation_exception_handler called directly              *)
(* (SpecHandler).                                                          *)
(***************************************************************************)
\* The field path of an error: its location components joined by " -> ".
RECURSIVE FieldPath(_, _)
FieldPath(parts, k) ==
    IF k = 0 THEN ""
    ELSE IF k = 1 THEN loc_str(parts[1])
    ELSE FieldPath(parts, k - 1) \o " -> " \o loc_str(parts[k])

\* "<field-path>: <message>"
Rendering(err) ==
    LET parts == IF "loc" \in DOMAIN err THEN err.loc ELSE <<>>
    IN  FieldPath(parts, Len(parts)) \o ": "
            \o (IF "msg" \in DOMAIN err THEN err.msg ELSE "Invalid input")

\* The renderings of errs[1..k], in order, "; " between two of them.
RECURSIVE Renderings(_, _)
Renderings(errs, k) ==
    IF k = 1 THEN Rendering(errs[1])
    ELSE Renderings(errs, k - 1) \o "; " \o Rendering(errs[k])

\* The errors schema validation reports for {"number": -2}.
ErrorsOfMinusTwo == FactorialIn(IntBody(-2)).errors

\* C9: the detail of a validation failure is the renderings "<field-path>:
\* <message>" of the errors, in order, joined with "; "; one error gives its
\* rendering alone, no error gives "Invalid request body."; for {"number": -2}
\* the detail contains "greater than or equal to 0".
C9_DetailFormat ==
    \A i \in 1..Len(unit) :
        LET errs == unit[i].arg
            detail == unit[i].out.content.detail
        IN  /\ errs = <<>> => detail = "Invalid request body."
            /\ Len(errs) = 1 => detail = Rendering(errs[1])
            /\ Len(errs) >= 1 => detail = Renderings(errs, Len(errs))
            /\ errs = ErrorsOfMinusTwo
                => /\ detail = "body -> number: Input should be greater than or equal to 0"
                   /\ Contains(detail, "greater than or equal to 0")
            /\ errs = <<FieldError("Field required"), [msg |-> "Input should be a valid integer"]>>
                => detail = "body -> number: Field required; : Input should be a valid integer"

\* The handler was given three errors, the first the one of {"number": -2}.
C9_Witness ==
    /\ Len(unit) = 1
    /\ Len(unit[1].arg) = 3
    /\ <<unit[1].arg[1]>> = ErrorsOfMinusTwo
    /\ unit[1].arg[2] = [loc |-> <<LocName("body"), LocIndex(12)>>, msg |-> "JSON decode error"]
    /\ Contains(unit[1].out.content.detail, "; body -> 12: JSON decode error; ")

(***************************************************************************)
(* Properties of compute_factorial called directly (SpecCompute).          *)
(***************************************************************************)
\* A validation-class failure as C4 describes it.
ValidationFailureBody(x) ==
    /\ x.status_code = 422
    /\ "error" \in DOMAIN x.content
    /\ x.content.error = "ValidationError"
    /\ "detail" \in DOMAIN x.content
    /\ Len(x.content.detail) > 0

====
